---- MODULE Spec2Model ----
(***************************************************************************)
(* pan-pingable-hosts: harvesting of pingable addresses from a firewall's  *)
(* ARP cache (src/main.go).  One run of main: download the ARP cache,      *)
(* decode it, group the entries by interface, ping the candidates of each  *)
(* interface until numAddresses of them answered, parse and sort the       *)
(* harvested addresses, print them.                                        *)
(*                                                                         *)
(* An address is a sequence of one-character strings, so that prefix       *)
(* tests, parsing (net.ParseIP) and formatting (net.IP.String) are         *)
(* computed character by character.                                        *)
(***************************************************************************)
EXTENDS Integers, Sequences, FiniteSets, TLC

\* ------------------------------------------------------------- bounds
\* Longest ARP entry list the firewall answers with.
MaxRecords == 3
\* Largest value of the -n flag.
MaxQuota == 2

\* ------------------------------------------------------------- inputs
\* Interface names occurring in the ARP cache.
Names == {"eth0", "eth1"}

AddrZero == <<"0", ".", "0", ".", "0", ".", "0">>
AddrTwo == <<"1", "0", ".", "0", ".", "0", ".", "2">>
AddrTen == <<"1", "0", ".", "0", ".", "0", ".", "1", "0">>
AddrHost == <<"g", "w">>

\* Values of the <ip> element: a placeholder, two hosts whose numeric and
\* textual orders differ, and a host name.
Addresses == {AddrZero, AddrTwo, AddrTen, AddrHost}

\* type Interface struct { Name; Address }
Interface == [Name : Names, Address : Addresses]

RECURSIVE SeqsUpTo(_, _)
SeqsUpTo(S, n) ==
    IF n = 0 THEN {<<>>}
    ELSE LET shorter == SeqsUpTo(S, n - 1)
         IN shorter \cup {Append(s, x) : s \in {t \in shorter : Len(t) = n - 1}, x \in S}

\* The response bodies getArpCache can return: a document xml.Unmarshal
\* rejects, or a well-formed one with its result>entries>entry list.
Documents ==
    {[wellFormed |-> FALSE, Entries |-> <<>>]}
    \cup {[wellFormed |-> TRUE, Entries |-> e] : e \in SeqsUpTo(Interface, MaxRecords)}

NoData == [wellFormed |-> FALSE, Entries |-> <<>>]
NoIface == "none"

\* ------------------------------------------------------------- state
VARIABLES
    pc,                  \* position of main
    exitCode,            \* -1 while running, then the process's exit status
    diag,                \* the fatal diagnostic written to stderr, "none" if none
    numAddresses,        \* flag -n
    data,                \* string returned by getArpCache
    arpCache,            \* arpCache.Entries
    gi,                  \* index of the grouping loop
    interfaces,          \* map[string][]string
    remaining,           \* keys the range over interfaces has not visited
    cur,                 \* key whose addrs are being harvested
    addrs,               \* getPingableAddresses: parameter addrs
    idx,                 \* getPingableAddresses: loop index
    pingableAddrs,       \* getPingableAddresses: accumulator
    probed,              \* per interface, per candidate: outcome of its pingAddr call
    probeLog,            \* addresses passed to pingAddr, in call order
    results,             \* per interface: value getPingableAddresses returned
    pingableHosts,       \* main: concatenated harvest results
    pingableHostsSorted, \* main: parsed and sorted addresses
    pi,                  \* index of the print loop
    stdout               \* lines written by fmt.Println

vars == <<pc, exitCode, diag, numAddresses, data, arpCache, gi, interfaces,
          remaining, cur, addrs, idx, pingableAddrs, probed, probeLog, results,
          pingableHosts, pingableHostsSorted, pi, stdout>>

\* ------------------------------------------------------------- helpers
EmptyMap == [k \in {} |-> <<>>]

\* m[k] of a Go map: the zero value when the key is absent.
MapGet(m, k) == IF k \in DOMAIN m THEN m[k] ELSE <<>>

MapSet(m, k, v) == [x \in DOMAIN m \cup {k} |-> IF x = k THEN v ELSE m[x]]

\* strings.HasPrefix
HasPrefixExact(s, prefix) == s = prefix
HasPrefix(s, prefix) ==
    /\ Len(s) >= Len(prefix)
    /\ SubSeq(s, 1, Len(prefix)) = prefix

\* bytes.Compare: -1, 0, 1 by lexicographic order of the bytes.
RECURSIVE BytesCompare(_, _)
BytesCompare(a, b) ==
    IF a = <<>> /\ b = <<>> THEN 0
    ELSE IF a = <<>> THEN -1
    ELSE IF b = <<>> THEN 1
    ELSE IF Head(a) < Head(b) THEN -1
    ELSE IF Head(a) > Head(b) THEN 1
    ELSE BytesCompare(Tail(a), Tail(b))

\* ------------------------------------------------------------- net.IP
Digits == <<"0", "1", "2", "3", "4", "5", "6", "7", "8", "9">>

IsDigit(c) == \E d \in 1..10 : Digits[d] = c

DigitVal(c) == (CHOOSE d \in 1..10 : Digits[d] = c) - 1

\* A nil net.IP.
NilIP == <<>>

\* net.IPv4: the 16-byte form, the four bytes behind the v4-in-v6 prefix.
IPv4(p) == <<0, 0, 0, 0, 0, 0, 0, 0, 0, 0, 255, 255>> \o p

\* net.dtoi: the decimal number s starts with; n its value, c the number of
\* characters read, ok false when there is none or it is too big.
RECURSIVE DtoILoop(_, _, _)
DtoILoop(s, i, n) ==
    IF i <= Len(s) /\ IsDigit(s[i])
    THEN LET n2 == n * 10 + DigitVal(s[i])
         IN IF n2 >= 16777215
            THEN [n |-> 16777215, c |-> i - 1, ok |-> FALSE]
            ELSE DtoILoop(s, i + 1, n2)
    ELSE IF i = 1
         THEN [n |-> 0, c |-> 0, ok |-> FALSE]
         ELSE [n |-> n, c |-> i - 1, ok |-> TRUE]

DtoI(s) == DtoILoop(s, 1, 0)

\* net.parseIPv4: four decimal octets separated by dots, none above 255,
\* none with a leading zero, nothing after the fourth.
RECURSIVE ParseIPv4Loop(_, _, _)
ParseIPv4Loop(s, i, p) ==
    IF i = 4 THEN (IF Len(s) # 0 THEN NilIP ELSE IPv4(p))
    ELSE IF Len(s) = 0 THEN NilIP
    ELSE IF i > 0 /\ s[1] # "." THEN NilIP
    ELSE LET s1 == IF i > 0 THEN Tail(s) ELSE s
             d == DtoI(s1)
         IN IF ~d.ok \/ d.n > 255 THEN NilIP
            ELSE IF d.c > 1 /\ s1[1] = "0" THEN NilIP
            ELSE ParseIPv4Loop(SubSeq(s1, d.c + 1, Len(s1)), i + 1, Append(p, d.n))

ParseIPv4(s) == ParseIPv4Loop(s, 0, <<>>)

\* net.ParseIP, for text without ':' (no entry of Addresses holds one): the
\* text is an IPv4 address if it holds a '.', and nil otherwise.
ParseIP(s) ==
    IF \E i \in 1..Len(s) : s[i] = "." THEN ParseIPv4(s) ELSE NilIP

\* strconv-free uitoa of package net.
RECURSIVE Uitoa(_)
Uitoa(n) ==
    IF n < 10 THEN <<Digits[n + 1]>>
    ELSE Append(Uitoa(n \div 10), Digits[(n % 10) + 1])

\* net.IP.To4: the four bytes of a v4-in-v6 address, nil otherwise.
To4(ip) ==
    IF Len(ip) = 4 THEN ip
    ELSE IF Len(ip) = 16 /\ SubSeq(ip, 1, 12) = IPv4(<<>>) THEN SubSeq(ip, 13, 16)
    ELSE NilIP

\* net.IP.String: "<nil>" for a nil address, dotted decimal for an IPv4
\* one.  Every value of this model is one of the two; "?" stands for the
\* hexadecimal form Go gives a slice of another length.
IPString(ip) ==
    IF Len(ip) = 0 THEN <<"<", "n", "i", "l", ">">>
    ELSE LET p4 == To4(ip)
         IN IF Len(p4) = 4
            THEN Uitoa(p4[1]) \o <<".">> \o Uitoa(p4[2]) \o <<".">>
                 \o Uitoa(p4[3]) \o <<".">> \o Uitoa(p4[4])
            ELSE <<"?">>

\* ------------------------------------------------------------- main: sort
\* The less function handed to sort.Slice.
LessDescending(a, b) == BytesCompare(a, b) > 0
Less(a, b) == BytesCompare(a, b) < 0

RECURSIVE InsertSorted(_, _)
InsertSorted(x, s) ==
    IF s = <<>> THEN <<x>>
    ELSE IF Less(x, Head(s)) THEN <<x>> \o s
    ELSE <<Head(s)>> \o InsertSorted(x, Tail(s))

\* sort.Slice: the slice reordered by Less.
RECURSIVE SortSlice(_)
SortSlice(s) ==
    IF s = <<>> THEN <<>> ELSE InsertSorted(Head(s), SortSlice(Tail(s)))

\* The loop that fills pingableHostsSorted: net.ParseIP of every entry, its
\* result appended unchecked.
ParseAll(hosts) == [i \in 1..Len(hosts) |-> ParseIP(hosts[i])]

\* ------------------------------------------------------------- grouping
\* interfaces[int.Name] = append(interfaces[int.Name], int.Address)
GroupOverwrite(m, e) == MapSet(m, e.Name, <<e.Address>>)
GroupAppend(m, e) == MapSet(m, e.Name, Append(MapGet(m, e.Name), e.Address))

\* ------------------------------------------------------------- harvesting
\* stats.PacketLoss == 0
ReachableAlways(loss) == loss >= 0
Reachable(loss) == loss = 0

\* len(pingableAddrs) == numAddrs
QuotaReachedLate(acc, numAddrs) == Len(acc) = numAddrs + 1
QuotaReached(acc, numAddrs) == Len(acc) = numAddrs

\* ------------------------------------------------------------- exits
\* log.Fatal / log.Fatalf: the message on stderr, then os.Exit(1).
LogPrint(e) == diag' = e /\ pc' = pc /\ exitCode' = exitCode
LogFatal(e) == diag' = e /\ pc' = "failed" /\ exitCode' = 1

\* panic(err) reaching the top of main: the trace on stderr, exit status 2.
Panic(e) == diag' = e /\ pc' = "failed" /\ exitCode' = 2

\* ------------------------------------------------------------- Init
Init ==
    /\ pc = "getArpCache"
    /\ exitCode = -1
    /\ diag = "none"
    /\ numAddresses \in 0..MaxQuota
    /\ data = NoData
    /\ arpCache = <<>>
    /\ gi = 1
    /\ interfaces = EmptyMap
    /\ remaining = {}
    /\ cur = NoIface
    /\ addrs = <<>>
    /\ idx = 1
    /\ pingableAddrs = <<>>
    /\ probed = EmptyMap
    /\ probeLog = <<>>
    /\ results = EmptyMap
    /\ pingableHosts = <<>>
    /\ pingableHostsSorted = <<>>
    /\ pi = 1
    /\ stdout = <<>>

\* ------------------------------------------------------------- getArpCache
\* client.Do fails, or reading the body fails: panic(err).
GetArpCacheTransportError ==
    /\ pc = "getArpCache"
    /\ Panic("transport")
    /\ UNCHANGED <<numAddresses, data, arpCache, gi, interfaces, remaining, cur,
                   addrs, idx, pingableAddrs, probed, probeLog, results,
                   pingableHosts, pingableHostsSorted, pi, stdout>>

\* resp.StatusCode != 200: log.Fatal(resp.Status).
GetArpCacheBadStatus ==
    /\ pc = "getArpCache"
    /\ LogFatal("status")
    /\ UNCHANGED <<numAddresses, data, arpCache, gi, interfaces, remaining, cur,
                   addrs, idx, pingableAddrs, probed, probeLog, results,
                   pingableHosts, pingableHostsSorted, pi, stdout>>

\* The body of a 200 response is returned.
GetArpCacheReturns ==
    /\ pc = "getArpCache"
    /\ \E doc \in Documents : data' = doc
    /\ pc' = "unmarshal"
    /\ UNCHANGED <<exitCode, diag, numAddresses, arpCache, gi, interfaces,
                   remaining, cur, addrs, idx, pingableAddrs, probed, probeLog,
                   results, pingableHosts, pingableHostsSorted, pi, stdout>>

\* ------------------------------------------------------------- main
\* xml.Unmarshal fails: panic(err).
UnmarshalError ==
    /\ pc = "unmarshal"
    /\ ~data.wellFormed
    /\ Panic("decode")
    /\ UNCHANGED <<numAddresses, data, arpCache, gi, interfaces, remaining, cur,
                   addrs, idx, pingableAddrs, probed, probeLog, results,
                   pingableHosts, pingableHostsSorted, pi, stdout>>

Unmarshal ==
    /\ pc = "unmarshal"
    /\ data.wellFormed
    /\ arpCache' = data.Entries
    /\ gi' = 1
    /\ interfaces' = EmptyMap
    /\ pc' = "group"
    /\ UNCHANGED <<exitCode, diag, numAddresses, data, remaining, cur, addrs, idx,
                   pingableAddrs, probed, probeLog, results, pingableHosts,
                   pingableHostsSorted, pi, stdout>>

\* One iteration of: for _, int := range arpCache.Entries.
GroupEntry ==
    /\ pc = "group"
    /\ gi <= Len(arpCache)
    /\ interfaces' = GroupAppend(interfaces, arpCache[gi])
    /\ gi' = gi + 1
    /\ UNCHANGED <<pc, exitCode, diag, numAddresses, data, arpCache, remaining,
                   cur, addrs, idx, pingableAddrs, probed, probeLog, results,
                   pingableHosts, pingableHostsSorted, pi, stdout>>

\* The grouping loop ends; the range over the map starts.
GroupDone ==
    /\ pc = "group"
    /\ gi > Len(arpCache)
    /\ remaining' = DOMAIN interfaces
    /\ pc' = "range"
    /\ UNCHANGED <<exitCode, diag, numAddresses, data, arpCache, gi, interfaces,
                   cur, addrs, idx, pingableAddrs, probed, probeLog, results,
                   pingableHosts, pingableHostsSorted, pi, stdout>>

\* The range over the map yields its next key, in an order Go leaves
\* unspecified, and getPingableAddresses is entered for its addresses.
HarvestCall ==
    /\ pc = "range"
    /\ \E k \in remaining :
        /\ cur' = k
        /\ addrs' = interfaces[k]
        /\ probed' = MapSet(probed, k, [i \in 1..Len(interfaces[k]) |-> "none"])
    /\ idx' = 1
    /\ pingableAddrs' = <<>>
    /\ pc' = "loop"
    /\ UNCHANGED <<exitCode, diag, numAddresses, data, arpCache, gi, interfaces,
                   remaining, probeLog, results, pingableHosts,
                   pingableHostsSorted, pi, stdout>>

\* ------------------------------------------------------------- getPingableAddresses
\* strings.HasPrefix(addr, "0"): continue.
LoopSkip ==
    /\ pc = "loop"
    /\ idx <= Len(addrs)
    /\ HasPrefix(addrs[idx], <<"0">>)
    /\ idx' = idx + 1
    /\ UNCHANGED <<pc, exitCode, diag, numAddresses, data, arpCache, gi,
                   interfaces, remaining, cur, addrs, pingableAddrs, probed,
                   probeLog, results, pingableHosts, pingableHostsSorted, pi,
                   stdout>>

\* pingAddr is entered for addrs[idx].
PingCalled ==
    /\ pc = "loop"
    /\ idx <= Len(addrs)
    /\ ~HasPrefix(addrs[idx], <<"0">>)
    /\ probeLog' = Append(probeLog, addrs[idx])

\* pingAddr: ping.NewPinger cannot resolve the address (it is no IP literal
\* and the resolver does not know the name): panic(err).
PingResolveError ==
    /\ PingCalled
    /\ ParseIP(addrs[idx]) = NilIP
    /\ probed' = [probed EXCEPT ![cur][idx] = "error"]
    /\ Panic("resolve")
    /\ UNCHANGED <<numAddresses, data, arpCache, gi, interfaces, remaining, cur,
                   addrs, idx, pingableAddrs, results, pingableHosts,
                   pingableHostsSorted, pi, stdout>>

\* pingAddr: pinger.Run fails (no raw socket): log.Fatalf.
PingRunError ==
    /\ PingCalled
    /\ probed' = [probed EXCEPT ![cur][idx] = "error"]
    /\ LogFatal("socket")
    /\ UNCHANGED <<numAddresses, data, arpCache, gi, interfaces, remaining, cur,
                   addrs, idx, pingableAddrs, results, pingableHosts,
                   pingableHostsSorted, pi, stdout>>

\* pingAddr returns the statistics of one echo request: PacketLoss is 0
\* when the reply came within the timeout and 100 when it did not.  The
\* address is appended on no loss, and the loop breaks when the accumulator
\* holds numAddrs addresses.
PingReturns ==
    /\ PingCalled
    /\ \E loss \in {0, 100} :
        LET acc == IF Reachable(loss)
                   THEN Append(pingableAddrs, addrs[idx])
                   ELSE pingableAddrs
        IN /\ probed' = [probed EXCEPT ![cur][idx] = IF loss = 0 THEN "up" ELSE "down"]
           /\ pingableAddrs' = acc
           /\ IF QuotaReached(acc, numAddresses)
              THEN pc' = "return" /\ idx' = idx
              ELSE pc' = pc /\ idx' = idx + 1
    /\ UNCHANGED <<exitCode, diag, numAddresses, data, arpCache, gi, interfaces,
                   remaining, cur, addrs, results, pingableHosts,
                   pingableHostsSorted, pi, stdout>>

\* return pingableAddrs, after the break or at the end of addrs; main
\* appends the result to pingableHosts.
HarvestReturn ==
    /\ \/ pc = "return"
       \/ pc = "loop" /\ idx > Len(addrs)
    /\ results' = MapSet(results, cur, pingableAddrs)
    /\ pingableHosts' = pingableHosts \o pingableAddrs
    /\ remaining' = remaining \ {cur}
    /\ cur' = NoIface
    /\ pc' = "range"
    /\ UNCHANGED <<exitCode, diag, numAddresses, data, arpCache, gi, interfaces,
                   addrs, idx, pingableAddrs, probed, probeLog, pingableHostsSorted,
                   pi, stdout>>

\* ------------------------------------------------------------- main: output
\* Every harvested string is parsed and the addresses are sorted.
SortHosts ==
    /\ pc = "range"
    /\ remaining = {}
    /\ pingableHostsSorted' = SortSlice(ParseAll(pingableHosts))
    /\ pi' = 1
    /\ pc' = "print"
    /\ UNCHANGED <<exitCode, diag, numAddresses, data, arpCache, gi, interfaces,
                   remaining, cur, addrs, idx, pingableAddrs, probed, probeLog,
                   results, pingableHosts, stdout>>

\* fmt.Println(addr)
PrintLine ==
    /\ pc = "print"
    /\ pi <= Len(pingableHostsSorted)
    /\ stdout' = Append(stdout, IPString(pingableHostsSorted[pi]))
    /\ pi' = pi + 1
    /\ UNCHANGED <<pc, exitCode, diag, numAddresses, data, arpCache, gi,
                   interfaces, remaining, cur, addrs, idx, pingableAddrs, probed,
                   probeLog, results, pingableHosts, pingableHostsSorted>>

\* main returns.
MainReturns ==
    /\ pc = "print"
    /\ pi > Len(pingableHostsSorted)
    /\ pc' = "done"
    /\ exitCode' = 0
    /\ UNCHANGED <<diag, numAddresses, data, arpCache, gi, interfaces, remaining,
                   cur, addrs, idx, pingableAddrs, probed, probeLog, results,
                   pingableHosts, pingableHostsSorted, pi, stdout>>

Next ==
    \/ GetArpCacheTransportError
    \/ GetArpCacheBadStatus
    \/ GetArpCacheReturns
    \/ UnmarshalError
    \/ Unmarshal
    \/ GroupEntry
    \/ GroupDone
    \/ HarvestCall
    \/ LoopSkip
    \/ PingResolveError
    \/ PingRunError
    \/ PingReturns
    \/ HarvestReturn
    \/ SortHosts
    \/ PrintLine
    \/ MainReturns

Spec == Init /\ [][Next]_vars

\* ------------------------------------------------------------- properties
\* The text starts with the character '0'.
StartsWithZero(a) == Len(a) >= 1 /\ a[1] = "0"

NonPlaceholderCount(c) == Cardinality({i \in 1..Len(c) : ~StartsWithZero(c[i])})

Min(a, b) == IF a <= b THEN a ELSE b

\* Number of occurrences of x in the sequence s.
Count(s, x) == Cardinality({i \in 1..Len(s) : s[i] = x})

\* Number of occurrences of x in all harvest results together.
RECURSIVE CountInResults(_, _)
CountInResults(K, x) ==
    IF K = {} THEN 0
    ELSE LET k == CHOOSE y \in K : TRUE
         IN Count(results[k], x) + CountInResults(K \ {k}, x)

\* Number of the first i candidates whose probe was answered.
UpCount(p, i) == Cardinality({j \in 1..i : p[j] = "up"})

\* The candidates among the first n of c that are no placeholders and whose
\* probe was answered, in the order of c.
RECURSIVE ReachableOfPrefix(_, _, _)
ReachableOfPrefix(c, p, n) ==
    IF n = 0 THEN <<>>
    ELSE LET r == ReachableOfPrefix(c, p, n - 1)
         IN IF p[n] = "up" /\ ~StartsWithZero(c[n]) THEN Append(r, c[n]) ELSE r

\* The addresses of the entries of e that carry the interface name k, in
\* the order of e.
RECURSIVE AddressesOf(_, _)
AddressesOf(e, k) ==
    IF e = <<>> THEN <<>>
    ELSE IF Head(e).Name = k
         THEN <<Head(e).Address>> \o AddressesOf(Tail(e), k)
         ELSE AddressesOf(Tail(e), k)

\* C1: with quota 0 the prober is never invoked and every harvest result,
\* and the accumulator at any time, is empty.
C1_QuotaZeroNeverProbes ==
    numAddresses = 0 =>
        /\ probeLog = <<>>
        /\ pingableAddrs = <<>>
        /\ \A k \in DOMAIN results : results[k] = <<>>

\* C2: the result getPingableAddresses returns for an interface is no longer
\* than min(quota, number of its candidates that do not start with '0').
C2_ResultWithinQuota ==
    \A k \in DOMAIN results :
        Len(results[k]) <= Min(numAddresses, NonPlaceholderCount(interfaces[k]))

\* C3: early exit: no candidate of an interface is passed to pingAddr after
\* the answered probe that brought the accumulator to the quota.
C3_EarlyExit ==
    \A k \in DOMAIN probed :
        \A i, j \in DOMAIN probed[k] :
            (i < j /\ probed[k][i] = "up" /\ UpCount(probed[k], i) = numAddresses)
                => probed[k][j] = "none"

\* C3 witness: a harvest returned at the quota and left a later candidate,
\* which is no placeholder, unprobed.
C3_Witness ==
    \E k \in DOMAIN results :
        \E i, j \in DOMAIN probed[k] :
            /\ i < j
            /\ probed[k][i] = "up"
            /\ UpCount(probed[k], i) = numAddresses
            /\ ~StartsWithZero(interfaces[k][j])
            /\ probed[k][j] = "none"

\* C4: a candidate that starts with '0' is never passed to pingAddr and is
\* never in the accumulator or in a harvest result.
C4_PlaceholderNeverProbed ==
    /\ \A i \in 1..Len(probeLog) : ~StartsWithZero(probeLog[i])
    /\ \A i \in 1..Len(pingableAddrs) : ~StartsWithZero(pingableAddrs[i])
    /\ \A k \in DOMAIN probed :
        \A i \in DOMAIN probed[k] :
            StartsWithZero(interfaces[k][i]) => probed[k][i] = "none"
    /\ \A k \in DOMAIN results :
        \A i \in 1..Len(results[k]) : ~StartsWithZero(results[k][i])

\* C4 witness: an interface whose first candidate is a placeholder was
\* harvested, and the candidate after the placeholder was probed and answered.
C4_Witness ==
    \E k \in DOMAIN results :
        /\ Len(interfaces[k]) >= 2
        /\ StartsWithZero(interfaces[k][1])
        /\ probed[k][2] = "up"
        /\ results[k] # <<>>

\* C5: after a fatal failure (download, status, decoding, resolving, socket)
\* the process has stopped with a non-zero exit status and stdout holds no
\* line; nothing more happens.
C5_FatalPrintsNothing ==
    diag # "none" =>
        /\ pc = "failed"
        /\ exitCode > 0
        /\ stdout = <<>>
        /\ ~ENABLED Next

\* C5 witness: the socket failed on a probe after addresses had been
\* harvested from another interface; none of them was printed.
C5_Witness ==
    /\ pc = "failed"
    /\ diag = "socket"
    /\ pingableHosts # <<>>
    /\ Len(probeLog) >= 2

\* C6: the printed lines are in non-decreasing order of the bytes of the
\* addresses they parse to.
C6_OutputSortedNumerically ==
    \A i \in 1..(Len(stdout) - 1) :
        BytesCompare(ParseIP(stdout[i]), ParseIP(stdout[i + 1])) <= 0

\* C6 witness: 10.0.0.10 was harvested before 10.0.0.2 and the run printed
\* 10.0.0.2 first.
C6_Witness ==
    /\ pc = "done"
    /\ pingableHosts = <<AddrTen, AddrTwo>>
    /\ stdout = <<AddrTwo, AddrTen>>

\* C7: when main returns, every text occurs among the printed lines exactly
\* as often as in the harvest results of all interfaces together.  Stated
\* for the runs with a positive quota, the ones C1 and C2 do not concern.
C7_OutputIsUnionOfResults ==
    (pc = "done" /\ numAddresses > 0) =>
        \A x \in Addresses \cup {stdout[i] : i \in 1..Len(stdout)} :
            Count(stdout, x) = CountInResults(DOMAIN results, x)

\* C8: a harvested string that does not parse as an IP address makes the
\* run fail: it is never reached by the print loop, no nil address is in the
\* sorted slice and no line is printed.  Stated for the runs with a positive
\* quota, the ones C1 and C2 do not concern.
C8_ParseFailureIsFatal ==
    (/\ numAddresses > 0
     /\ \E i \in 1..Len(pingableHosts) : ParseIP(pingableHosts[i]) = NilIP) =>
        /\ pc \notin {"print", "done"}
        /\ \A j \in 1..Len(pingableHostsSorted) : pingableHostsSorted[j] # NilIP
        /\ stdout = <<>>

\* C9: the grouping loop keeps the map equal to the grouping of the entries
\* it has read: its keys are the interface names among them, and the value of
\* a key is the addresses of its entries in input order, with repetitions;
\* when the loop has ended, all entries have been read.
C9_GroupingExact ==
    LET read == SubSeq(arpCache, 1, gi - 1)
    IN /\ DOMAIN interfaces = {read[i].Name : i \in 1..Len(read)}
       /\ \A k \in DOMAIN interfaces : interfaces[k] = AddressesOf(read, k)
       /\ pc \in {"range", "loop", "return", "print", "done"} => read = arpCache

\* C9 witness: the entries of two interfaces came interleaved, and one
\* interface got the same address twice.
C9_Witness ==
    /\ pc = "range"
    /\ Len(arpCache) = 3
    /\ arpCache[1].Name = arpCache[3].Name
    /\ arpCache[2].Name # arpCache[1].Name
    /\ arpCache[1].Address = arpCache[3].Address
    /\ Len(interfaces[arpCache[1].Name]) = 2
    /\ Len(interfaces[arpCache[2].Name]) = 1

\* C10: each harvest result is, for some prefix of the candidates, the
\* non-placeholder candidates of the prefix whose probe was answered, in
\* input order, and no candidate after the prefix was probed.
C10_PrefixFilter ==
    \A k \in DOMAIN results :
        \E n \in 0..Len(interfaces[k]) :
            /\ results[k] = ReachableOfPrefix(interfaces[k], probed[k], n)
            /\ \A i \in DOMAIN probed[k] : i > n => probed[k][i] = "none"
            /\ \A i \in 1..n :
                probed[k][i] = "none" <=> StartsWithZero(interfaces[k][i])

\* C10 witness: a harvest whose first candidate did not answer, whose second
\* did, and whose third, no placeholder, was left unprobed.
C10_Witness ==
    \E k \in DOMAIN results :
        /\ Len(interfaces[k]) = 3
        /\ probed[k] = <<"down", "up", "none">>
        /\ ~StartsWithZero(interfaces[k][3])
        /\ results[k] = <<interfaces[k][2]>>

====
